---- MODULE Spec2Model ----
(***************************************************************************)
(* go-tool-cache: the S3 remote cache adapter (cachers/s3.go), the         *)
(* disk-backed S3 cache (the S3Cache with a diskCache field) and the       *)
(* go-cacher start-up glue, as state machines.                             *)
(*                                                                         *)
(* Strings built with fmt.Sprintf("%s/%s", ...) are tuples of their path   *)
(* segments; byte streams are sequences of bytes; error messages are       *)
(* sequences of words (strings.Contains looks for one word).               *)
(***************************************************************************)
EXTENDS Integers, Sequences, FiniteSets, TLC

\* ------------------------------------------------------------------ bounds

\* longest body (in bytes) handed to the remote adapter
MaxLen == 1

\* ------------------------------------------------------------ value domains

ActionIDs == {"a1", "a2"}

OutputIDs == {"o1", "o2"}

\* the bodies of the model: one of every length up to MaxLen, and a second
\* one-byte body with another content
Bodies == {[i \in 1..n |-> 7] : n \in 0..MaxLen} \cup {<<9>>}

Sizes == 0..MaxLen

\* ------------------------------------------------- errors of the S3 client

NoErr == [api |-> FALSE, code |-> "", msg |-> <<>>]

\* a smithy.APIError with its ErrorCode() and the words of its message
APIError(code, msg) == [api |-> TRUE, code |-> code, msg |-> msg]

\* an error that errors.As does not convert to a smithy.APIError
NetErr == [api |-> FALSE, code |-> "", msg |-> <<"dial", "timeout">>]

ErrorMessages == {<<"denied">>, <<"request", "SignatureDoesNotMatch">>}

\* what a request to the store can fail with
ClientErrors ==
    {APIError(c, m) : c \in {"NoSuchKey", "AccessDenied"}, m \in ErrorMessages}
        \cup {APIError("SignatureDoesNotMatch", <<"denied">>), APIError("InternalError", <<"denied">>), NetErr}

\* ae.Error(): "api error <code>: <message>"
ErrorString(err) == <<"api", "error", err.code>> \o err.msg

\* strings.Contains(text, word)
Contains(text, word) == \E i \in 1..Len(text) : text[i] = word

\* ------------------------------------------------ state of the whole model

VARIABLES
    s3,        \* the remote adapter: the S3Cache struct of cachers/s3.go
    objects,   \* the bucket behind the adapter's s3Client: key -> object
    call,      \* the adapter call made last, with its inputs
    res,       \* what that call returned
    reqs,      \* the requests that call sent to the s3Client, in order
    stored,    \* per ActionID, the entry the latest successful upload wrote
    c,         \* the disk-backed cache: the S3Cache struct with a diskCache
    disk,      \* the directory of c.diskCache: action records and body files
    remote,    \* the bucket behind c.s3Client: action records and output objects
    task,      \* per request task: where it is in Get or Put, its locals, its result
    started,   \* how many Get and Put calls have been started
    putDone,   \* the ActionIDs some Put has returned successfully for
    fetched,   \* the ActionIDs some Get has fetched from the bucket successfully
    env,       \* the environment variables of the process
    main,      \* the process: its command line, how far main() got, the cache it built
    pipe,      \* the async put pipeline: its queue, its workers, the protocol loop feeding it
    dio,       \* the disk tier's Puts in progress, step by step, and the crashes so far
    stat,      \* the measured transfers in progress, the two stats mutexes, the samples
    twin       \* a second run of the caches, given the same calls and the same answers

adapterVars == <<s3, objects, call, res, reqs, stored>>

tieredVars == <<c, disk, remote, task, started, putDone, fetched>>

glueVars == <<env, main, pipe, dio, stat, twin>>

vars == <<s3, objects, call, res, reqs, stored, c, disk, remote, task, started, putDone, fetched, env, main, pipe, dio, stat, twin>>

\* ------------------------------------------------ the process environment

EnvNames ==
    {"GOARCH", "GOOS", "GOCACHE_AWS_REGION", "GOCACHE_AWS_ACCESS_KEY", "GOCACHE_AWS_SECRET_ACCESS_KEY",
     "GOCACHE_AWS_CREDS_PROFILE", "GOCACHE_S3_BUCKET", "GOCACHE_CACHE_KEY", "GOCACHE_QUEUE_LEN",
     "GOCACHE_WORKERS"}

Unset == [set |-> FALSE, val |-> ""]

SetTo(v) == [set |-> TRUE, val |-> v]

NoEnv == [n \in EnvNames |-> Unset]

\* os.Getenv: the value, "" when the variable is not set
Getenv(e, name) == IF e[name].set THEN e[name].val ELSE ""

\* os.LookupEnv: the value and whether the variable is set
LookupEnv(e, name) == [val |-> Getenv(e, name), ok |-> e[name].set]

\* ------------------------------------------------- the bucket (s3Client)

outputIDMetadataKey == "outputid"

runtimeGOARCH == "amd64"

runtimeGOOS == "linux"

defaultCacheKey == "v1"

NoObject == [present |-> FALSE, body |-> <<>>, metadata |-> {}]

Object(body, metadata) == [present |-> TRUE, body |-> body, metadata |-> metadata]

\* objects other clients of the bucket may have left under an action key
ForeignObjects == {Object(<<7>>, {}), Object(<<7>>, {<<outputIDMetadataKey, "">>})}

NoSuchKey == APIError("NoSuchKey", <<"key", "missing">>)

\* s3Client.GetObject: the store's answer, or the failure `fault`
GetObject(store, key, fault) ==
    IF fault # NoErr
    THEN [err |-> fault, Body |-> <<>>, ContentLength |-> 0, Metadata |-> {}]
    ELSE IF ~store[key].present
    THEN [err |-> NoSuchKey, Body |-> <<>>, ContentLength |-> 0, Metadata |-> {}]
    ELSE [err |-> NoErr, Body |-> store[key].body,
          ContentLength |-> Len(store[key].body), Metadata |-> store[key].metadata]

\* s3Client.PutObject: the object is written unless the request fails
PutObject(store, key, body, metadata, fault) ==
    IF fault # NoErr
    THEN [err |-> fault, store |-> store]
    ELSE [err |-> NoErr, store |-> [store EXCEPT ![key] = Object(body, metadata)]]

\* m[k] with Go's "comma ok"
MetaHas(metadata, k) == \E kv \in metadata : kv[1] = k

MetaGet(metadata, k) == IF MetaHas(metadata, k) THEN (CHOOSE kv \in metadata : kv[1] = k)[2] ELSE ""

\* --------------------------------------- the remote adapter (cachers/s3.go)

\* a prefix of the machine the process runs on, whatever the build targets
NewS3Cache_IgnoresEnv(cacheKey, verbose, envGOARCH, envGOOS) ==
    [prefix |-> <<"cache", cacheKey, runtimeGOARCH, runtimeGOOS>>,
     verbose |-> verbose,
     SkipZeroBytePuts |-> FALSE]

NewS3Cache(cacheKey, verbose, envGOARCH, envGOOS) ==
    LET goarch == IF envGOARCH = "" THEN runtimeGOARCH ELSE envGOARCH
        goos == IF envGOOS = "" THEN runtimeGOOS ELSE envGOOS
    IN  [prefix |-> <<"cache", cacheKey, goarch, goos>>,
         verbose |-> verbose,
         SkipZeroBytePuts |-> FALSE]

actionKey(s, actionID) == Append(s.prefix, actionID)

\* the older classification: every AccessDenied is "not found"
isNotFoundError_AnyAccessDenied(err) ==
    err # NoErr /\ err.api /\ err.code \in {"AccessDenied", "NoSuchKey"}

isNotFoundError(err) ==
    IF err # NoErr /\ err.api
    THEN IF err.code = "NoSuchKey" THEN TRUE
         ELSE IF err.code = "AccessDenied"
         THEN ~Contains(ErrorString(err), "SignatureDoesNotMatch")
         ELSE FALSE
    ELSE FALSE

GetResult(outputID, size, output, hasOutput, err) ==
    [outputID |-> outputID, size |-> size, output |-> output, hasOutput |-> hasOutput, err |-> err]

\* Get without the check of the outputid metadata
S3CacheGet_NoMetadataCheck(s, store, actionID, fault) ==
    LET outputResult == GetObject(store, actionKey(s, actionID), fault)
    IN  IF isNotFoundError(outputResult.err)
        THEN GetResult("", 0, <<>>, FALSE, "nil")
        ELSE IF outputResult.err # NoErr
        THEN GetResult("", 0, <<>>, FALSE, "unexpected S3 get")
        ELSE GetResult(MetaGet(outputResult.Metadata, outputIDMetadataKey),
                       outputResult.ContentLength, outputResult.Body, TRUE, "nil")

\* (s *S3Cache) Get: the result for the s3Client's answer to the one GetObject
S3CacheGet(s, store, actionID, fault) ==
    LET outputResult == GetObject(store, actionKey(s, actionID), fault)
        getOutputErr == outputResult.err
        ok == MetaHas(outputResult.Metadata, outputIDMetadataKey)
        outputID == MetaGet(outputResult.Metadata, outputIDMetadataKey)
    IN  IF isNotFoundError(getOutputErr)
        THEN GetResult("", 0, <<>>, FALSE, "nil")
        ELSE IF getOutputErr # NoErr
        THEN GetResult("", 0, <<>>, FALSE, "unexpected S3 get")
        ELSE IF ~ok \/ outputID = ""
        THEN GetResult("", 0, <<>>, FALSE, "outputId not found in metadata")
        ELSE GetResult(outputID, outputResult.ContentLength, outputResult.Body, TRUE, "nil")

PutResult(err, store, sent) == [err |-> err, store |-> store, sent |-> sent]

\* Put that hands the reader to PutObject as it comes and sends again what is
\* left of it when the first attempt fails
S3CachePutSend_Streams(s, store, actionID, outputID, size, body, readErr, fault) ==
    LET reader == IF size = 0 THEN <<>> ELSE body
        key == actionKey(s, actionID)
        put == PutObject(store, key, reader, {<<outputIDMetadataKey, outputID>>}, fault)
        first == [op |-> "PutObject", key |-> key, body |-> reader, ContentLength |-> size,
                  RetryMaxAttempts |-> 3]
    IN  IF put.err # NoErr
        THEN PutResult("PutObject failed", put.store, <<first, [first EXCEPT !.body = <<>>]>>)
        ELSE PutResult("nil", put.store, <<first>>)

\* Put that sends what it read without comparing its length with the size
S3CachePutSend_TrustsSize(s, store, actionID, outputID, size, body, readErr, fault) ==
    LET reader == IF size = 0 THEN <<>> ELSE body
        key == actionKey(s, actionID)
        put == PutObject(store, key, reader, {<<outputIDMetadataKey, outputID>>}, fault)
        sent == <<[op |-> "PutObject", key |-> key, body |-> reader, ContentLength |-> size,
                   RetryMaxAttempts |-> 0]>>
    IN  IF size # 0 /\ readErr
        THEN PutResult("error reading body", store, <<>>)
        ELSE PutResult(IF put.err # NoErr THEN "PutObject failed" ELSE "nil", put.store, sent)

\* Put that returns the error of PutObject only when it logs it
S3CachePutSend_QuietDropsErr(s, store, actionID, outputID, size, body, readErr, fault) ==
    LET reader == IF size = 0 THEN <<>> ELSE body
        key == actionKey(s, actionID)
        put == PutObject(store, key, reader, {<<outputIDMetadataKey, outputID>>}, fault)
        sent == <<[op |-> "PutObject", key |-> key, body |-> reader, ContentLength |-> size,
                   RetryMaxAttempts |-> 0]>>
    IN  IF size # 0 /\ readErr
        THEN PutResult("error reading body", store, <<>>)
        ELSE IF Len(reader) # size
        THEN PutResult("size mismatch", store, <<>>)
        ELSE IF put.err # NoErr /\ s.verbose
        THEN PutResult("PutObject failed", put.store, sent)
        ELSE PutResult("nil", put.store, sent)

\* Put, lines 82-115: the body is read whole, then sent in one PutObject
S3CachePutSend(s, store, actionID, outputID, size, body, readErr, fault) ==
    LET reader == IF size = 0 THEN <<>> ELSE body
        readFails == size # 0 /\ readErr
        key == actionKey(s, actionID)
        put == PutObject(store, key, reader, {<<outputIDMetadataKey, outputID>>}, fault)
        sent == <<[op |-> "PutObject", key |-> key, body |-> reader, ContentLength |-> size,
                   RetryMaxAttempts |-> 0]>>
        err == IF put.err # NoErr THEN "PutObject failed" ELSE "nil"
    IN  IF readFails
        THEN PutResult("error reading body", store, <<>>)
        ELSE IF Len(reader) # size
        THEN PutResult("size mismatch", store, <<>>)
        ELSE IF err # "nil" /\ s.verbose
        THEN PutResult(err, put.store, sent)
        ELSE PutResult(err, put.store, sent)

\* Put that elides every empty body, whatever SkipZeroBytePuts says
S3CachePut_AlwaysSkipEmpty(s, store, actionID, outputID, size, body, readErr, fault) ==
    IF size = 0
    THEN PutResult("nil", store, <<>>)
    ELSE S3CachePutSend(s, store, actionID, outputID, size, body, readErr, fault)

\* Put that never elides an empty body
S3CachePut_NeverSkip(s, store, actionID, outputID, size, body, readErr, fault) ==
    S3CachePutSend(s, store, actionID, outputID, size, body, readErr, fault)

\* (s *S3Cache) Put: the error returned, the bucket afterwards, the requests sent
S3CachePut(s, store, actionID, outputID, size, body, readErr, fault) ==
    IF size = 0 /\ s.SkipZeroBytePuts
    THEN PutResult("nil", store, <<>>)
    ELSE S3CachePutSend(s, store, actionID, outputID, size, body, readErr, fault)

\* --------------------------------- the disk tier (c.diskCache, a DiskCache)

\* the bytes an OutputID is the content hash of
OutputBody(outputID) == IF outputID = "o1" THEN <<7>> ELSE <<>>

OutputSize(outputID) == Len(OutputBody(outputID))

NoRecord == [present |-> FALSE, OutputID |-> "", Size |-> 0]

NoFile == [present |-> FALSE, body |-> <<>>]

File(body) == [present |-> TRUE, body |-> body]

EmptyDisk == [actions |-> [a \in ActionIDs |-> NoRecord], bodies |-> [o \in OutputIDs |-> NoFile]]

\* o/<first-two-hex>/<OutputID>-d under the cache directory
DiskPath(outputID) == <<"o", outputID>>

NoPath == <<>>

TieredResult(outputID, diskPath, err) == [outputID |-> outputID, diskPath |-> diskPath, err |-> err]

\* DiskCache.Get: the action record, then the body file it names; a missing or
\* wrong-sized body file is a miss; `ioErr` is a failing read
DiskGet(d, actionID, ioErr) ==
    LET rec == d.actions[actionID]
        file == d.bodies[rec.OutputID]
    IN  IF ioErr THEN TieredResult("", NoPath, "disk read failed")
        ELSE IF ~rec.present THEN TieredResult("", NoPath, "nil")
        ELSE IF ~file.present \/ Len(file.body) # rec.Size THEN TieredResult("", NoPath, "nil")
        ELSE TieredResult(rec.OutputID, DiskPath(rec.OutputID), "nil")

\* DiskCache.Put: the body file first, then the action record; the bytes read
\* must be `size` many; `ioErr` is a failing write
DiskPut(d, actionID, outputID, size, body, ioErr) ==
    IF ioErr THEN [diskPath |-> NoPath, err |-> "disk write failed", disk |-> d]
    ELSE IF Len(body) # size THEN [diskPath |-> NoPath, err |-> "size mismatch", disk |-> d]
    ELSE [diskPath |-> DiskPath(outputID), err |-> "nil",
          disk |-> [actions |-> [d.actions EXCEPT ![actionID] = [present |-> TRUE, OutputID |-> outputID, Size |-> size]],
                    bodies |-> [d.bodies EXCEPT ![outputID] = File(body)]]]

\* a Put of the disk tier that is not running
NoDiskPut == [pc |-> "idle", actionID |-> "", outputID |-> "", size |-> 0, stream |-> <<>>, err |-> "nil"]

NoDiskIO == [put |-> [p \in {"p1", "p2"} |-> NoDiskPut], started |-> 0, crashes |-> 0]

\* a Put that renames the action record into place before the body
DiskPutOrder_ActionFirst == <<"action", "body", "done">>

\* DiskCache.Put renames the body into place, then the action record
DiskPutOrder == <<"body", "action", "done">>

\* the step after `pc` in DiskCache.Put
DiskPutAfter(pc) == DiskPutOrder[(CHOOSE i \in 1..Len(DiskPutOrder) : DiskPutOrder[i] = pc) + 1]

\* one step of DiskCache.Put: the body is written to a temporary file and, if
\* it has `size` bytes, renamed to its path; the action record likewise.
\* Only a rename changes what the directory shows.
DiskPutStep(d, t, ioErr) ==
    IF ioErr THEN [disk |-> d, put |-> [t EXCEPT !.pc = "done", !.err = "disk write failed"]]
    ELSE IF Len(t.stream) # t.size
    THEN [disk |-> d, put |-> [t EXCEPT !.pc = "done", !.err = "size mismatch"]]
    ELSE IF t.pc = "body"
    THEN [disk |-> [d EXCEPT !.bodies[t.outputID] = File(t.stream)],
          put |-> [t EXCEPT !.pc = DiskPutAfter("body")]]
    ELSE [disk |-> [d EXCEPT !.actions[t.actionID] =
                                [present |-> TRUE, OutputID |-> t.outputID, Size |-> t.size]],
          put |-> [t EXCEPT !.pc = DiskPutAfter("action")]]

\* ----------------------------- the disk-backed S3 cache: helpers of Get, Put

Digits == <<"0", "1", "2", "3", "4", "5", "6", "7", "8", "9">>

\* the decimal text of a size below ten, and back
Itoa(n) == Digits[n + 1]

Atoi(text) == (CHOOSE i \in 1..Len(Digits) : Digits[i] = text) - 1

ActionValue(outputID, size) == [OutputID |-> outputID, Size |-> size]

\* json.Marshal(av): {"OutputID":"...","Size":n}
Marshal(av) == <<"{", "OutputID", av.OutputID, "Size", Itoa(av.Size), "}">>

\* an action object that is not the JSON of an ActionValue
BadJSON == <<"{", "OutputID">>

\* json.Unmarshal(body, &av)
UnmarshalOK(text) ==
    /\ Len(text) = 6
    /\ text[1] = "{" /\ text[2] = "OutputID" /\ text[4] = "Size" /\ text[6] = "}"
    /\ \E i \in 1..Len(Digits) : Digits[i] = text[5]

Unmarshal(text) == ActionValue(text[3], Atoi(text[5]))

NoDoc == [present |-> FALSE, body |-> <<>>]

EmptyRemote == [actions |-> [a \in ActionIDs |-> NoDoc], outputs |-> [o \in OutputIDs |-> NoFile]]

\* client.GetObject on <prefix>/actions/<actionID> and <prefix>/output/<outputID>
GetActionObject(r, actionID, fault) ==
    IF fault # NoErr THEN [err |-> fault, Body |-> <<>>]
    ELSE IF ~r.actions[actionID].present THEN [err |-> NoSuchKey, Body |-> <<>>]
    ELSE [err |-> NoErr, Body |-> r.actions[actionID].body]

GetOutputObject(r, outputID, fault) ==
    IF fault # NoErr THEN [err |-> fault, Body |-> <<>>]
    ELSE IF ~r.outputs[outputID].present THEN [err |-> NoSuchKey, Body |-> <<>>]
    ELSE [err |-> NoErr, Body |-> r.outputs[outputID].body]

\* client.PutObject on the two kinds of key
PutActionObject(r, actionID, body, fault) ==
    IF fault # NoErr THEN r
    ELSE [r EXCEPT !.actions[actionID] = [present |-> TRUE, body |-> body]]

PutOutputObject(r, outputID, body, fault) ==
    IF fault # NoErr THEN r
    ELSE [r EXCEPT !.outputs[outputID] = File(body)]

\* isNotFoundError of the disk-backed cache
TieredIsNotFoundError(err) ==
    IF err # NoErr /\ err.api
    THEN err.code = "AccessDenied" \/ err.code = "NoSuchKey"
    ELSE FALSE

\* exact fractions, for the float64 speeds and their means
RECURSIVE GCD(_, _)
GCD(a, b) == IF b = 0 THEN a ELSE GCD(b, a % b)

Rat(n, d) == [num |-> n \div GCD(n, d), den |-> d \div GCD(n, d)]

Zero == Rat(0, 1)

\* a mean that forgets how many samples it holds
newAverage_IgnoresCount(oldAverage, count, newValue) ==
    Rat(oldAverage.num * newValue.den + newValue.num * oldAverage.den, oldAverage.den * newValue.den * 2)

newAverage(oldAverage, count, newValue) ==
    Rat(oldAverage.num * count * newValue.den + newValue.num * oldAverage.den,
        oldAverage.den * newValue.den * (count + 1))

\* DoAndMeasureSpeed: dataSize / elapsed.Seconds()
MeasuredSpeed(dataSize, elapsed) == Rat(dataSize, elapsed)

\* the seconds a measured transfer can take
Elapsed == {1, 2}

NewDiskS3Cache(verbose) ==
    [verbose |-> verbose,
     bytesDownloaded |-> 0, bytesUploaded |-> 0,
     downloadCount |-> 0, uploadCount |-> 0,
     avgBytesDownloadSpeed |-> Zero, avgBytesUploadSpeed |-> Zero]

NotCalled == [called |-> FALSE, outputID |-> "", diskPath |-> NoPath, err |-> "nil"]

Called(outputID, diskPath, err) == [called |-> TRUE, outputID |-> outputID, diskPath |-> diskPath, err |-> err]

\* a request task that is not inside Get or Put
Idle ==
    [pc |-> "idle", op |-> "none", actionID |-> "", outputID |-> "", size |-> 0,
     doc |-> <<>>,                 \* Get: the body of the action object read
     buf |-> <<>>,                 \* Put: readerForS3, the bytes teed while writing to disk
     ret |-> TieredResult("", NoPath, "nil"),
     diskGet |-> NotCalled,        \* what c.diskCache.Get returned to this call
     diskPut |-> NotCalled,        \* what c.diskCache.Put returned to this call
     sent |-> 0, answered |-> 0,   \* requests this call sent to the bucket, and those answered
     actionErr |-> NoErr,          \* the error of the request on the action key
     outputErr |-> NoErr,          \* the error of the request on the output key
     afterPut |-> FALSE,           \* Get: a Put of this ActionID had returned successfully before
     afterFetch |-> FALSE]         \* Get: a Get had fetched this ActionID successfully before

Step(t, d, r, cache) == [task |-> t, disk |-> d, remote |-> r, c |-> cache]

Return(t, ret) == [t EXCEPT !.pc = "done", !.ret = ret]

\* Get that asks the bucket whatever the disk tier returned
TieredGet_Disk_AlwaysRemote(t, d, r, cache, ioErr) ==
    LET got == DiskGet(d, t.actionID, ioErr)
    IN  Step([t EXCEPT !.diskGet = Called(got.outputID, got.diskPath, got.err),
                       !.pc = "get_action", !.sent = 1], d, r, cache)

\* Get, lines 130-146: the disk tier first; unless it hits, ask for the action object
TieredGet_Disk(t, d, r, cache, ioErr) ==
    LET got == DiskGet(d, t.actionID, ioErr)
        t1 == [t EXCEPT !.diskGet = Called(got.outputID, got.diskPath, got.err)]
    IN  IF got.err = "nil" /\ got.outputID # ""
        THEN Step(Return(t1, TieredResult(got.outputID, got.diskPath, "nil")), d, r, cache)
        ELSE Step([t1 EXCEPT !.pc = "get_action", !.sent = 1], d, r, cache)

\* Get, lines 147-180: the action object's answer; an empty output is written
\* to disk at once, any other is asked for
TieredGet_Action(t, d, r, cache, fault, ioErr) ==
    LET result == GetActionObject(r, t.actionID, fault)
        t1 == [t EXCEPT !.answered = 1, !.actionErr = result.err, !.doc = result.Body]
        av == Unmarshal(result.Body)
        put == DiskPut(d, t.actionID, av.OutputID, av.Size, <<>>, ioErr)
    IN  IF TieredIsNotFoundError(result.err)
        THEN Step(Return(t1, TieredResult("", NoPath, "nil")), d, r, cache)
        ELSE IF result.err # NoErr
        THEN Step(Return(t1, TieredResult("", NoPath, "unexpected S3 get")), d, r, cache)
        ELSE IF ~UnmarshalOK(result.Body)
        THEN Step(Return(t1, TieredResult("", NoPath, "json")), d, r, cache)
        ELSE IF av.Size = 0
        THEN Step(Return([t1 EXCEPT !.outputID = av.OutputID, !.size = av.Size,
                                    !.diskPut = Called("", put.diskPath, put.err)],
                         TieredResult(av.OutputID, put.diskPath, put.err)),
                  put.disk, r, cache)
        ELSE Step([t1 EXCEPT !.pc = "get_output", !.outputID = av.OutputID, !.size = av.Size, !.sent = 2],
                  d, r, cache)

\* Get that reports an output object the bucket does not hold as an error
TieredGet_Output_MissingIsError(t, d, r, cache, fault, ioErr, elapsed) ==
    LET outputResult == GetOutputObject(r, t.outputID, fault)
        t1 == [t EXCEPT !.answered = 2, !.outputErr = outputResult.err]
        put == DiskPut(d, t.actionID, t.outputID, t.size, outputResult.Body, ioErr)
        t2 == [t1 EXCEPT !.diskPut = Called("", put.diskPath, put.err)]
    IN  IF outputResult.err # NoErr
        THEN Step(Return(t1, TieredResult("", NoPath, "unexpected S3 get")), d, r, cache)
        ELSE Step(Return(t2, TieredResult(t.outputID, put.diskPath, put.err)), put.disk, r,
                  IF put.err = "nil" THEN [cache EXCEPT !.bytesDownloaded = @ + t.size] ELSE cache)

\* Get, lines 181-213: the output object's answer; downloadFunc writes it to
\* disk and counts the bytes; verbose measures the speed of a download that succeeded
TieredGet_Output(t, d, r, cache, fault, ioErr, elapsed) ==
    LET outputResult == GetOutputObject(r, t.outputID, fault)
        getOutputErr == outputResult.err
        t1 == [t EXCEPT !.answered = 2, !.outputErr = getOutputErr]
        put == DiskPut(d, t.actionID, t.outputID, t.size, outputResult.Body, ioErr)
        t2 == [t1 EXCEPT !.diskPut = Called("", put.diskPath, put.err)]
        counted == IF put.err = "nil"
                   THEN [cache EXCEPT !.bytesDownloaded = @ + t.size]
                   ELSE cache
        measured == IF put.err = "nil"
                    THEN [counted EXCEPT
                            !.avgBytesDownloadSpeed =
                                newAverage(@, cache.downloadCount, MeasuredSpeed(t.size, elapsed)),
                            !.downloadCount = @ + 1]
                    ELSE counted
    IN  IF TieredIsNotFoundError(getOutputErr)
        THEN Step(Return(t1, TieredResult("", NoPath, "nil")), d, r, cache)
        ELSE IF getOutputErr # NoErr
        THEN Step(Return(t1, TieredResult("", NoPath, "unexpected S3 get")), d, r, cache)
        ELSE Step(Return(t2, TieredResult(t.outputID, put.diskPath, put.err)), put.disk, r,
                  IF cache.verbose THEN measured ELSE counted)

\* Put that uploads the body without writing it to the disk tier
TieredPut_Disk_NoLocalWrite(t, d, r, cache, stream, ioErr) ==
    Step([t EXCEPT !.pc = "put_action", !.diskPut = Called("", DiskPath(t.outputID), "nil"),
                   !.buf = IF t.size = 0 THEN <<>> ELSE stream, !.sent = 1,
                   !.ret = TieredResult("", DiskPath(t.outputID), "nil")],
         d, r, cache)

\* Put, lines 223-258: the disk tier first, teeing the body into readerForS3;
\* then the action record is sent
TieredPut_Disk(t, d, r, cache, stream, ioErr) ==
    LET readerForDisk == IF t.size = 0 THEN <<>> ELSE stream
        readerForS3 == IF t.size = 0 THEN <<>> ELSE stream
        put == DiskPut(d, t.actionID, t.outputID, t.size, readerForDisk, ioErr)
    IN  IF put.err # "nil"
        THEN Step(Return([t EXCEPT !.diskPut = Called("", put.diskPath, put.err)],
                         TieredResult("", NoPath, put.err)), d, r, cache)
        ELSE Step([t EXCEPT !.pc = "put_action", !.diskPut = Called("", put.diskPath, put.err),
                            !.buf = readerForS3, !.sent = 1,
                            !.ret = TieredResult("", put.diskPath, "nil")],
                  put.disk, r, cache)

\* Put that uploads the output whatever its size
TieredPut_Action_UploadsEmpty(t, d, r, cache, fault) ==
    LET r1 == PutActionObject(r, t.actionID, Marshal(ActionValue(t.outputID, t.size)), fault)
        t1 == [t EXCEPT !.answered = 1, !.actionErr = fault]
    IN  IF fault = NoErr
        THEN Step([t1 EXCEPT !.pc = "put_output", !.sent = 2], d, r1, cache)
        ELSE Step(Return(t1, TieredResult("", t.ret.diskPath, "nil")), d, r1,
                  [cache EXCEPT !.bytesUploaded = @ + t.size])

\* Put that returns the error of the action record's upload
TieredPut_Action_ReturnsErr(t, d, r, cache, fault) ==
    LET r1 == PutActionObject(r, t.actionID, Marshal(ActionValue(t.outputID, t.size)), fault)
        t1 == [t EXCEPT !.answered = 1, !.actionErr = fault]
    IN  IF t.size > 0 /\ fault = NoErr
        THEN Step([t1 EXCEPT !.pc = "put_output", !.sent = 2], d, r1, cache)
        ELSE Step(Return(t1, TieredResult("", t.ret.diskPath, IF fault = NoErr THEN "nil" ELSE "PutObject failed")),
                  d, r1, [cache EXCEPT !.bytesUploaded = @ + t.size])

\* Put, lines 254-265: the action record's answer; an output of size > 0 is
\* uploaded only if the record was stored; err is not the error Put returns
TieredPut_Action(t, d, r, cache, fault) ==
    LET avj == Marshal(ActionValue(t.outputID, t.size))
        r1 == PutActionObject(r, t.actionID, avj, fault)
        err == fault
        t1 == [t EXCEPT !.answered = 1, !.actionErr = err]
    IN  IF t.size > 0 /\ err = NoErr
        THEN Step([t1 EXCEPT !.pc = "put_output", !.sent = 2], d, r1, cache)
        ELSE Step(Return(t1, TieredResult("", t.ret.diskPath, "nil")), d, r1,
                  [cache EXCEPT !.bytesUploaded = @ + t.size])

\* a Put that counts only the bytes the bucket stored
uploadOutput_CountsOnlyStored(t, d, r, cache, fault, elapsed) ==
    LET r1 == PutOutputObject(r, t.outputID, t.buf, fault)
        t1 == [t EXCEPT !.answered = 2, !.outputErr = fault]
        measured == IF cache.verbose /\ fault = NoErr
                    THEN [cache EXCEPT
                            !.avgBytesUploadSpeed =
                                newAverage(@, cache.uploadCount, MeasuredSpeed(t.size, elapsed)),
                            !.uploadCount = @ + 1]
                    ELSE cache
    IN  Step(Return(t1, TieredResult("", t.ret.diskPath, "nil")), d, r1,
             IF fault = NoErr THEN [measured EXCEPT !.bytesUploaded = @ + t.size] ELSE measured)

\* uploadOutput, lines 268-290, and Put's lines 263-265: the output's answer;
\* verbose measures the speed of an upload that succeeded
uploadOutput(t, d, r, cache, fault, elapsed) ==
    LET r1 == PutOutputObject(r, t.outputID, t.buf, fault)
        err == fault
        t1 == [t EXCEPT !.answered = 2, !.outputErr = err]
        measured == IF cache.verbose /\ err = NoErr
                    THEN [cache EXCEPT
                            !.avgBytesUploadSpeed =
                                newAverage(@, cache.uploadCount, MeasuredSpeed(t.size, elapsed)),
                            !.uploadCount = @ + 1]
                    ELSE cache
    IN  Step(Return(t1, TieredResult("", t.ret.diskPath, "nil")), d, r1,
             [measured EXCEPT !.bytesUploaded = @ + t.size])

\* ------------------------------------- start-up of go-cacher (cmd/go-cacher)

NilConfig == [nil |-> TRUE, region |-> "", creds |-> "none"]

AwsConfig(region, creds) == [nil |-> FALSE, region |-> region, creds |-> creds]

\* getAwsConfigFromEnv; `loadFails`: config.LoadDefaultConfig returns an error
getAwsConfigFromEnv(e, loadFails) ==
    LET awsRegion == Getenv(e, "GOCACHE_AWS_REGION")
        accessKey == Getenv(e, "GOCACHE_AWS_ACCESS_KEY")
        secretAccessKey == Getenv(e, "GOCACHE_AWS_SECRET_ACCESS_KEY")
        credsProfile == Getenv(e, "GOCACHE_AWS_CREDS_PROFILE")
    IN  IF awsRegion # ""
        THEN [cfg |-> NilConfig, err |-> "nil"]
        ELSE IF accessKey # "" /\ secretAccessKey # ""
        THEN IF loadFails THEN [cfg |-> NilConfig, err |-> "load config"]
             ELSE [cfg |-> AwsConfig(awsRegion, "static"), err |-> "nil"]
        ELSE IF credsProfile # ""
        THEN IF loadFails THEN [cfg |-> NilConfig, err |-> "load config"]
             ELSE [cfg |-> AwsConfig(awsRegion, "profile"), err |-> "nil"]
        ELSE [cfg |-> NilConfig, err |-> "nil"]

NoRemote == [kind |-> "nil", bucket |-> "", prefix |-> <<>>]

\* maybeS3Cache: the S3 remote cache, or nil without a bucket or a config
maybeS3Cache(e, verbose, loadFails) ==
    LET got == getAwsConfigFromEnv(e, loadFails)
        bucket == Getenv(e, "GOCACHE_S3_BUCKET")
        cacheKey == IF Getenv(e, "GOCACHE_CACHE_KEY") = "" THEN defaultCacheKey
                    ELSE Getenv(e, "GOCACHE_CACHE_KEY")
        s3Cache == NewS3Cache(cacheKey, verbose, Getenv(e, "GOARCH"), Getenv(e, "GOOS"))
    IN  IF got.err # "nil" THEN [remote |-> NoRemote, err |-> got.err]
        ELSE IF bucket = "" \/ got.cfg.nil THEN [remote |-> NoRemote, err |-> "nil"]
        ELSE [remote |-> [kind |-> "s3", bucket |-> bucket, prefix |-> s3Cache.prefix], err |-> "nil"]

\* maybeHttpCache: the HTTP remote cache of -cache-server, or nil
maybeHttpCache(serverBase) ==
    IF serverBase = "" THEN [remote |-> NoRemote, err |-> "nil"]
    ELSE [remote |-> [kind |-> "http", bucket |-> "", prefix |-> <<serverBase>>], err |-> "nil"]

NoCache == [kind |-> "none", remote |-> NoRemote]

\* getCache: the cache handed to the protocol loop, or log.Fatal
getCache(e, serverBase, verbose, loadFails) ==
    LET s3try == maybeS3Cache(e, verbose, loadFails)
        httptry == maybeHttpCache(serverBase)
        remoteCache == IF s3try.remote.kind = "nil" THEN httptry.remote ELSE s3try.remote
    IN  IF s3try.err # "nil" THEN [fatal |-> TRUE, cache |-> NoCache]
        ELSE IF s3try.remote.kind = "nil" /\ httptry.err # "nil" THEN [fatal |-> TRUE, cache |-> NoCache]
        ELSE IF remoteCache.kind # "nil"
        THEN [fatal |-> FALSE, cache |-> [kind |-> "combined", remote |-> remoteCache]]
        ELSE IF verbose THEN [fatal |-> FALSE, cache |-> [kind |-> "local stats", remote |-> NoRemote]]
        ELSE [fatal |-> FALSE, cache |-> [kind |-> "local", remote |-> NoRemote]]

\* ----------------------- start-up of the disk + S3 cacher (stringArg .. main)

defaultS3Prefix == "go-cache"

\* strconv.Atoi on the texts of the model
AtoiOK(text) == \E i \in 1..Len(Digits) : Digits[i] = text

\* stringFlag, intFlag: the default of a flag comes from the environment; a
\* variable that is not a number is fatal
stringFlag(e, value, envVariable) ==
    IF LookupEnv(e, envVariable).ok THEN LookupEnv(e, envVariable).val ELSE value

intFlag(e, value, envVariable) ==
    IF ~LookupEnv(e, envVariable).ok THEN [val |-> value, fatal |-> FALSE]
    ELSE IF AtoiOK(LookupEnv(e, envVariable).val)
    THEN [val |-> Atoi(LookupEnv(e, envVariable).val), fatal |-> FALSE]
    ELSE [val |-> 0, fatal |-> TRUE]

\* stringArg: the positional argument, else the environment variable, else fatal
stringArg(pos, args, e, envVariable) ==
    IF pos < Len(args) THEN [val |-> args[pos + 1], fatal |-> FALSE]
    ELSE IF LookupEnv(e, envVariable).ok THEN [val |-> LookupEnv(e, envVariable).val, fatal |-> FALSE]
    ELSE [val |-> "", fatal |-> TRUE]

\* parseConfig: the flags of the model are left at their defaults
parseConfig(e, args) ==
    LET flagQueueLen == intFlag(e, 0, "GOCACHE_QUEUE_LEN")
        flagWorkers == intFlag(e, 1, "GOCACHE_WORKERS")
        bucket == stringArg(0, args, e, "GOCACHE_S3_BUCKET")
    IN  [fatal |-> flagQueueLen.fatal \/ flagWorkers.fatal \/ bucket.fatal,
         s3Prefix |-> defaultS3Prefix,
         bucket |-> bucket.val,
         queueLen |-> flagQueueLen.val,
         workers |-> flagWorkers.val]

\* a process before main(), and main() at the protocol loop or at log.Fatal
NotStarted ==
    [prog |-> "none", pc |-> "start", args |-> <<>>, serverBase |-> "", verbose |-> FALSE,
     loadFails |-> FALSE, cache |-> NoCache, queueLen |-> 0, workers |-> 0]

\* main of cmd/go-cacher: the cache of getCache, then proc.Run
GoCacherMain(e, serverBase, verbose, loadFails) ==
    LET got == getCache(e, serverBase, verbose, loadFails)
    IN  [NotStarted EXCEPT !.prog = "go-cacher", !.serverBase = serverBase, !.verbose = verbose,
                           !.loadFails = loadFails,
                           !.pc = IF got.fatal THEN "fatal" ELSE "loop",
                           !.cache = got.cache]

\* main of the disk + S3 cacher: parseConfig, getAwsConfig, the cache, proc.Run
S3CacherMain(e, args, loadFails) ==
    LET cfg == parseConfig(e, args)
    IN  IF cfg.fatal \/ loadFails
        THEN [NotStarted EXCEPT !.prog = "s3-cacher", !.args = args, !.loadFails = loadFails, !.pc = "fatal"]
        ELSE [NotStarted EXCEPT !.prog = "s3-cacher", !.args = args, !.pc = "loop",
                                !.cache = [kind |-> "disk async s3",
                                           remote |-> [kind |-> "s3", bucket |-> cfg.bucket,
                                                       prefix |-> <<cfg.s3Prefix>>]],
                                !.queueLen = cfg.queueLen, !.workers = cfg.workers]

\* ------------------- the speed statistics of the disk-backed cache, by step

\* downloads (Get) and uploads (uploadOutput)
Directions == {"down", "up"}

NoTransfer == [pc |-> "idle", dir |-> "", speed |-> Zero]

\* no transfer running, both mutexes free
NoStats ==
    [mu |-> [d \in Directions |-> ""],            \* downloadsStatsMutex, uploadStatsMutex: the holder
     t |-> [p \in {"p1", "p2"} |-> NoTransfer],
     measured |-> [d \in Directions |-> <<>>],    \* the speeds of the transfers that succeeded
     applied |-> [d \in Directions |-> <<>>],     \* the speeds newAverage was called with
     started |-> 0]

\* a mutex that does not exclude
CanLock_NoExclusion(holder) == TRUE

\* sync.Mutex.Lock returns once no one holds the mutex
CanLock(holder) == holder = ""

Average(cache, dir) == IF dir = "down" THEN cache.avgBytesDownloadSpeed ELSE cache.avgBytesUploadSpeed

Count(cache, dir) == IF dir = "down" THEN cache.downloadCount ELSE cache.uploadCount

\* c.avgBytes<Dir>Speed = newAverage(c.avgBytes<Dir>Speed, c.<dir>Count, speed)
SetAverage(cache, dir, speed) ==
    IF dir = "down"
    THEN [cache EXCEPT !.avgBytesDownloadSpeed = newAverage(@, cache.downloadCount, speed)]
    ELSE [cache EXCEPT !.avgBytesUploadSpeed = newAverage(@, cache.uploadCount, speed)]

\* c.<dir>Count++
IncrementCount(cache, dir) ==
    IF dir = "down" THEN [cache EXCEPT !.downloadCount = @ + 1] ELSE [cache EXCEPT !.uploadCount = @ + 1]

\* --------------------------- the async put pipeline (NewDiskAsyncS3Cache)

IdleWorker == [pc |-> "idle", job |-> 0]

\* the pipeline of a process that was given `puts` put requests to come; jobs
\* are numbered in the order they enter the pipeline
NewPipeline(queueLen, workers, puts) ==
    [queueLen |-> queueLen, workers |-> workers, puts |-> puts,
     engine |-> "running",         \* the protocol loop: running, draining, stopped
     waiting |-> 0,                \* Put tasks written to disk that have yet to hand over their job
     localErrors |-> 0,            \* Put tasks the disk tier failed
     responded |-> 0,              \* Put responses emitted
     issued |-> 0,                 \* jobs handed over so far
     queue |-> <<>>,               \* the job channel
     closed |-> FALSE,             \* the job channel is closed
     queuedAtClose |-> 0,          \* how many jobs the channel held when it was closed
     sync |-> {},                  \* jobs running on their caller's goroutine (queueLen = 0)
     worker |-> [w \in 1..workers |-> IdleWorker],
     done |-> {},                  \* jobs whose remote put ran to completion
     remotePuts |-> 0,             \* remote puts completed
     exited |-> FALSE]

NoPipeline == NewPipeline(0, 0, 0)

\* the protocol loop reads a put request; its task writes to the disk tier
PipePut(q, localFails) ==
    IF localFails
    THEN [q EXCEPT !.puts = @ - 1, !.localErrors = @ + 1, !.responded = @ + 1]
    ELSE [q EXCEPT !.puts = @ - 1, !.waiting = @ + 1]

\* an enqueue that drops the job when the channel is full
CanEnqueue_DropWhenFull(q) == q.queueLen > 0

\* a send on the job channel blocks while the channel is full
CanEnqueue(q) == q.queueLen > 0 /\ Len(q.queue) < q.queueLen

\* a Put task hands its job to the channel and responds; a task that does not
\* wait for room (the best-effort mode) loses its job
PipeEnqueue(q) ==
    IF Len(q.queue) < q.queueLen
    THEN [q EXCEPT !.waiting = @ - 1, !.issued = @ + 1, !.queue = Append(@, q.issued + 1),
                   !.responded = @ + 1]
    ELSE [q EXCEPT !.waiting = @ - 1, !.issued = @ + 1, !.responded = @ + 1]

\* queueLen = 0: the put runs on the calling goroutine, then the task responds
PipeSyncStart(q) ==
    [q EXCEPT !.waiting = @ - 1, !.issued = @ + 1, !.sync = @ \cup {q.issued + 1}]

PipeSyncDone(q, job) ==
    [q EXCEPT !.sync = @ \ {job}, !.done = @ \cup {job}, !.remotePuts = @ + 1, !.responded = @ + 1]

\* a worker receives the next job of the channel
WorkerTake(q, w) ==
    [q EXCEPT !.worker[w] = [pc |-> "busy", job |-> Head(q.queue)], !.queue = Tail(@)]

\* the remote adapter's Put of a worker's job returned, with or without an error
WorkerDone(q, w) ==
    [q EXCEPT !.worker[w] = IdleWorker, !.done = @ \cup {q.worker[w].job}, !.remotePuts = @ + 1]

\* a worker leaves its loop when the channel is closed and empty
WorkerCanExit(q, w) == q.worker[w].pc = "idle" /\ q.closed /\ q.queue = <<>>

WorkerExit(q, w) == [q EXCEPT !.worker[w] = [pc |-> "exited", job |-> 0]]

\* a close request or the end of stdin: no request is read any more
EngineDrain(q) == [q EXCEPT !.engine = "draining"]

\* draining: once the outstanding tasks are done, the cache is closed, which
\* closes the job channel
CanClose(q) == q.engine = "draining" /\ ~q.closed /\ q.waiting = 0 /\ q.sync = {}

PipeClose(q) == [q EXCEPT !.closed = TRUE, !.queuedAtClose = Len(q.queue)]

\* the shutdown of the pipeline returns when every worker has left
ShutdownCanReturn(q) == q.engine = "draining" /\ q.closed /\ \A w \in 1..q.workers : q.worker[w].pc = "exited"

ShutdownReturns(q) == [q EXCEPT !.engine = "stopped"]

\* a main that runs the protocol loop on another goroutine and does not wait for it
MainCanExit_WithoutWaiting(q) == ~q.exited

\* main calls proc.Run and goes on when it has returned
MainCanExit(q) == q.engine = "stopped" /\ ~q.exited

\* main: the summaries are printed and the process exits
MainExit(q) == [q EXCEPT !.exited = TRUE]

\* ------------------------------------------------- adapter: the operations

\* no second run
NoTwin == [of |-> "none"]

NoCall == [op |-> "none", actionID |-> "", outputID |-> "", size |-> 0, body |-> <<>>,
           readErr |-> FALSE, fault |-> NoErr]

NoStored == [set |-> FALSE, outputID |-> "", size |-> 0, body |-> <<>>]

Procs == {"p1", "p2"}

\* a process that has not been started
GlueAtRest ==
    /\ env = NoEnv
    /\ main = NotStarted
    /\ pipe = NoPipeline
    /\ dio = NoDiskIO
    /\ stat = NoStats
    /\ twin = NoTwin

\* the disk-backed cache before its first call, on an empty directory and bucket
TieredAtRest ==
    /\ c = NewDiskS3Cache(FALSE)
    /\ disk = EmptyDisk
    /\ remote = EmptyRemote
    /\ task = [p \in Procs |-> Idle]
    /\ started = 0
    /\ putDone = {}
    /\ fetched = {}

InitAdapter ==
    /\ TieredAtRest
    /\ GlueAtRest
    /\ \E verbose \in BOOLEAN, skip \in BOOLEAN :
          s3 = [NewS3Cache(defaultCacheKey, verbose, "", "") EXCEPT !.SkipZeroBytePuts = skip]
    /\ objects \in [{actionKey(s3, a) : a \in ActionIDs} -> {NoObject} \cup ForeignObjects]
    /\ call = NoCall
    /\ res = GetResult("", 0, <<>>, FALSE, "nil")
    /\ reqs = <<>>
    /\ stored = [a \in ActionIDs |-> NoStored]

Get(actionID, fault) ==
    /\ call' = [NoCall EXCEPT !.op = "Get", !.actionID = actionID, !.fault = fault]
    /\ res' = S3CacheGet(s3, objects, actionID, fault)
    /\ reqs' = <<[op |-> "GetObject", key |-> actionKey(s3, actionID), body |-> <<>>, ContentLength |-> 0]>>
    /\ UNCHANGED <<s3, objects, stored, tieredVars, glueVars>>

Put(actionID, outputID, size, body, readErr, fault) ==
    \E r \in {S3CachePut(s3, objects, actionID, outputID, size, body, readErr, fault)} :
        /\ call' = [op |-> "Put", actionID |-> actionID, outputID |-> outputID, size |-> size,
                    body |-> body, readErr |-> readErr, fault |-> fault]
        /\ res' = GetResult("", 0, <<>>, FALSE, r.err)
        /\ reqs' = r.sent
        /\ objects' = r.store
        /\ stored' = IF r.err # "nil" THEN stored
                     ELSE IF (size = 0 /\ s3.SkipZeroBytePuts) \/ Len(body) # size
                     THEN [stored EXCEPT ![actionID] = NoStored]
                     ELSE [stored EXCEPT ![actionID] =
                              [set |-> TRUE, outputID |-> outputID, size |-> size, body |-> body]]
        /\ UNCHANGED <<s3, tieredVars, glueVars>>

PutFaults == {NoErr, NetErr}

NextAdapter ==
    \/ \E a \in ActionIDs, fault \in {NoErr} \cup ClientErrors : Get(a, fault)
    \/ \E a \in ActionIDs, o \in OutputIDs, size \in Sizes, body \in Bodies,
          readErr \in BOOLEAN, fault \in PutFaults :
          /\ readErr => size # 0 /\ fault = NoErr
          /\ fault # NoErr => Len(body) = size \/ size = 0
          /\ Put(a, o, size, body, readErr, fault)

SpecAdapter == InitAdapter /\ [][NextAdapter]_vars

\* ------------------------------ adapter: the keys under every environment

\* maybeS3Cache, lines 86-89: the cache key of the environment, or the default
CacheKeyFromEnv(e) ==
    IF Getenv(e, "GOCACHE_CACHE_KEY") = "" THEN defaultCacheKey ELSE Getenv(e, "GOCACHE_CACHE_KEY")

\* the environments of a native and of a cross-compiling build
KeyEnvs ==
    {[NoEnv EXCEPT !["GOARCH"] = arch, !["GOOS"] = os, !["GOCACHE_CACHE_KEY"] = key] :
        arch \in {Unset, SetTo(""), SetTo("arm64")},
        os \in {Unset, SetTo(""), SetTo("windows")},
        key \in {Unset, SetTo("k2")}}

\* the adapter as maybeS3Cache constructs it, on an empty bucket
InitKeys ==
    /\ TieredAtRest
    /\ env \in KeyEnvs
    /\ main = NotStarted
    /\ pipe = NoPipeline
    /\ dio = NoDiskIO
    /\ stat = NoStats
    /\ twin = NoTwin
    /\ s3 = NewS3Cache(CacheKeyFromEnv(env), FALSE, Getenv(env, "GOARCH"), Getenv(env, "GOOS"))
    /\ objects = [k \in {actionKey(s3, a) : a \in ActionIDs} |-> NoObject]
    /\ call = NoCall
    /\ res = GetResult("", 0, <<>>, FALSE, "nil")
    /\ reqs = <<>>
    /\ stored = [a \in ActionIDs |-> NoStored]

\* Gets and Puts of well-formed entries, answered or refused by the bucket
NextKeys ==
    \/ \E a \in ActionIDs, fault \in PutFaults : Get(a, fault)
    \/ \E a \in ActionIDs, o \in OutputIDs, fault \in PutFaults :
          Put(a, o, OutputSize(o), OutputBody(o), FALSE, fault)

SpecKeys == InitKeys /\ [][NextKeys]_vars

\* ------------------------------------- disk-backed S3 cache: the operations

\* most Get and Put calls a behaviour starts
MaxOps == 2

\* what the bucket may hold when the process starts: nothing, or one entry
\* another machine uploaded, whole or in part
RemoteSeeds ==
    {EmptyRemote}
    \cup {[EmptyRemote EXCEPT !.actions["a1"] = [present |-> TRUE, body |-> doc]] :
             doc \in {BadJSON, Marshal(ActionValue("o1", 1)), Marshal(ActionValue("o2", 0))}}
    \cup {[EmptyRemote EXCEPT !.actions["a1"] = [present |-> TRUE, body |-> Marshal(ActionValue("o1", 1))],
                              !.outputs["o1"] = File(body)] : body \in {<<7>>, <<>>}}

AdapterAtRest ==
    /\ s3 = NewS3Cache(defaultCacheKey, FALSE, "", "")
    /\ objects = [k \in {actionKey(s3, a) : a \in ActionIDs} |-> NoObject]
    /\ call = NoCall
    /\ res = GetResult("", 0, <<>>, FALSE, "nil")
    /\ reqs = <<>>
    /\ stored = [a \in ActionIDs |-> NoStored]

Init ==
    /\ AdapterAtRest
    /\ GlueAtRest
    /\ c \in {NewDiskS3Cache(verbose) : verbose \in BOOLEAN}
    /\ disk = EmptyDisk
    /\ remote \in RemoteSeeds
    /\ task = [p \in Procs |-> Idle]
    /\ started = 0
    /\ putDone = {}
    /\ fetched = {}

GetFaults == {NoErr, APIError("AccessDenied", <<"denied">>), APIError("InternalError", <<"denied">>), NetErr}

\* the step `n` of task p
Take(p, n) ==
    /\ task' = [task EXCEPT ![p] = n.task]
    /\ disk' = n.disk
    /\ remote' = n.remote
    /\ c' = n.c
    /\ putDone' = IF n.task.pc = "done" /\ n.task.op = "Put" /\ n.task.ret.err = "nil"
                  THEN putDone \cup {n.task.actionID}
                  ELSE putDone
    /\ fetched' = IF /\ n.task.pc = "done" /\ n.task.op = "Get"
                     /\ n.task.diskPut.called /\ n.task.ret.err = "nil"
                  THEN fetched \cup {n.task.actionID}
                  ELSE fetched
    /\ UNCHANGED <<adapterVars, glueVars>>

GetStart(p, actionID, ioErr) ==
    /\ task[p].pc \in {"idle", "done"}
    /\ started < MaxOps
    /\ started' = started + 1
    /\ \E n \in {TieredGet_Disk([Idle EXCEPT !.op = "Get", !.actionID = actionID,
                                             !.afterPut = actionID \in putDone,
                                             !.afterFetch = actionID \in fetched],
                                disk, remote, c, ioErr)} :
          Take(p, n)

GetActionAnswer(p, fault, ioErr) ==
    /\ task[p].pc = "get_action"
    /\ \E n \in {TieredGet_Action(task[p], disk, remote, c, fault, ioErr)} : Take(p, n)
    /\ UNCHANGED started

GetOutputAnswer(p, fault, ioErr, elapsed) ==
    /\ task[p].pc = "get_output"
    /\ \E n \in {TieredGet_Output(task[p], disk, remote, c, fault, ioErr, elapsed)} : Take(p, n)
    /\ UNCHANGED started

\* the toolchain declares the true size of the output; the stream may end early
PutStart(p, actionID, outputID, short, ioErr) ==
    /\ task[p].pc \in {"idle", "done"}
    /\ started < MaxOps
    /\ started' = started + 1
    /\ short => OutputSize(outputID) > 0
    /\ \E n \in {TieredPut_Disk([Idle EXCEPT !.op = "Put", !.actionID = actionID,
                                             !.outputID = outputID, !.size = OutputSize(outputID)],
                                disk, remote, c,
                                IF short THEN SubSeq(OutputBody(outputID), 1, OutputSize(outputID) - 1)
                                         ELSE OutputBody(outputID),
                                ioErr)} :
          Take(p, n)

PutActionAnswer(p, fault) ==
    /\ task[p].pc = "put_action"
    /\ \E n \in {TieredPut_Action(task[p], disk, remote, c, fault)} : Take(p, n)
    /\ UNCHANGED started

PutOutputAnswer(p, fault, elapsed) ==
    /\ task[p].pc = "put_output"
    /\ \E n \in {uploadOutput(task[p], disk, remote, c, fault, elapsed)} : Take(p, n)
    /\ UNCHANGED started

Next ==
    \/ \E p \in Procs, a \in ActionIDs, ioErr \in BOOLEAN : GetStart(p, a, ioErr)
    \/ \E p \in Procs, fault \in GetFaults, ioErr \in BOOLEAN : GetActionAnswer(p, fault, ioErr)
    \/ \E p \in Procs, fault \in GetFaults, ioErr \in BOOLEAN, elapsed \in Elapsed :
          GetOutputAnswer(p, fault, ioErr, elapsed)
    \/ \E p \in Procs, a \in ActionIDs, o \in OutputIDs, short \in BOOLEAN, ioErr \in BOOLEAN :
          PutStart(p, a, o, short, ioErr)
    \/ \E p \in Procs, fault \in PutFaults : PutActionAnswer(p, fault)
    \/ \E p \in Procs, fault \in PutFaults, elapsed \in Elapsed : PutOutputAnswer(p, fault, elapsed)

Spec == Init /\ [][Next]_vars

\* ------------------------- both caches, run twice: verbose and not verbose

\* the adapter's second run: the same bucket, the other setting of verbose
TwinAdapter(s, store) ==
    [of |-> "adapter", s3 |-> [s EXCEPT !.verbose = ~@], objects |-> store,
     res |-> GetResult("", 0, <<>>, FALSE, "nil"), reqs |-> <<>>]

\* the disk-backed cache's second run: the same bucket, the other setting of verbose
TwinTiered(cache, r) ==
    [of |-> "tiered", c |-> NewDiskS3Cache(~cache.verbose), disk |-> EmptyDisk, remote |-> r,
     task |-> [p \in Procs |-> Idle]]

InitVerbose ==
    /\ env = NoEnv /\ main = NotStarted /\ pipe = NoPipeline /\ dio = NoDiskIO /\ stat = NoStats
    /\ \/ /\ TieredAtRest
          /\ \E skip \in BOOLEAN :
                s3 = [NewS3Cache(defaultCacheKey, TRUE, "", "") EXCEPT !.SkipZeroBytePuts = skip]
          /\ objects \in [{actionKey(s3, a) : a \in ActionIDs} -> {NoObject} \cup ForeignObjects]
          /\ call = NoCall
          /\ res = GetResult("", 0, <<>>, FALSE, "nil")
          /\ reqs = <<>>
          /\ stored = [a \in ActionIDs |-> NoStored]
          /\ twin = TwinAdapter(s3, objects)
       \/ /\ AdapterAtRest
          /\ c = NewDiskS3Cache(TRUE)
          /\ disk = EmptyDisk
          /\ remote \in RemoteSeeds
          /\ task = [p \in Procs |-> Idle]
          /\ started = 0
          /\ putDone = {}
          /\ fetched = {}
          /\ twin = TwinTiered(c, remote)

\* the adapter's Get, called in both runs with the same answer of the bucket
TwinGet(actionID, fault) ==
    /\ twin.of = "adapter"
    /\ call' = [NoCall EXCEPT !.op = "Get", !.actionID = actionID, !.fault = fault]
    /\ res' = S3CacheGet(s3, objects, actionID, fault)
    /\ reqs' = <<[op |-> "GetObject", key |-> actionKey(s3, actionID), body |-> <<>>, ContentLength |-> 0]>>
    /\ twin' = [twin EXCEPT
                  !.res = S3CacheGet(twin.s3, twin.objects, actionID, fault),
                  !.reqs = <<[op |-> "GetObject", key |-> actionKey(twin.s3, actionID), body |-> <<>>,
                              ContentLength |-> 0]>>]
    /\ UNCHANGED <<s3, objects, stored, tieredVars, env, main, pipe, dio, stat>>

\* the adapter's Put, called in both runs with the same body and the same answer
TwinPut(actionID, outputID, size, body, readErr, fault) ==
    /\ twin.of = "adapter"
    /\ \E r \in {S3CachePut(s3, objects, actionID, outputID, size, body, readErr, fault)},
          r2 \in {S3CachePut(twin.s3, twin.objects, actionID, outputID, size, body, readErr, fault)} :
          /\ call' = [op |-> "Put", actionID |-> actionID, outputID |-> outputID, size |-> size,
                      body |-> body, readErr |-> readErr, fault |-> fault]
          /\ res' = GetResult("", 0, <<>>, FALSE, r.err)
          /\ reqs' = r.sent
          /\ objects' = r.store
          /\ twin' = [twin EXCEPT !.res = GetResult("", 0, <<>>, FALSE, r2.err), !.reqs = r2.sent,
                                  !.objects = r2.store]
    /\ UNCHANGED <<s3, stored, tieredVars, env, main, pipe, dio, stat>>

\* the step `n` of task p in the first run and `m` in the second
TwinTake(p, n, m) ==
    /\ twin.of = "tiered"
    /\ task' = [task EXCEPT ![p] = n.task]
    /\ disk' = n.disk
    /\ remote' = n.remote
    /\ c' = n.c
    /\ twin' = [twin EXCEPT !.task[p] = m.task, !.disk = m.disk, !.remote = m.remote, !.c = m.c]
    /\ UNCHANGED <<adapterVars, putDone, fetched, env, main, pipe, dio, stat>>

TwinGetStart(p, actionID, ioErr) ==
    /\ task[p].pc \in {"idle", "done"}
    /\ started < MaxOps
    /\ started' = started + 1
    /\ LET t == [Idle EXCEPT !.op = "Get", !.actionID = actionID]
       IN  TwinTake(p, TieredGet_Disk(t, disk, remote, c, ioErr),
                    TieredGet_Disk(t, twin.disk, twin.remote, twin.c, ioErr))

TwinGetActionAnswer(p, fault, ioErr) ==
    /\ task[p].pc = "get_action"
    /\ TwinTake(p, TieredGet_Action(task[p], disk, remote, c, fault, ioErr),
                TieredGet_Action(twin.task[p], twin.disk, twin.remote, twin.c, fault, ioErr))
    /\ UNCHANGED started

TwinGetOutputAnswer(p, fault, ioErr, elapsed) ==
    /\ task[p].pc = "get_output"
    /\ TwinTake(p, TieredGet_Output(task[p], disk, remote, c, fault, ioErr, elapsed),
                TieredGet_Output(twin.task[p], twin.disk, twin.remote, twin.c, fault, ioErr, elapsed))
    /\ UNCHANGED started

TwinPutStart(p, actionID, outputID, short, ioErr) ==
    /\ task[p].pc \in {"idle", "done"}
    /\ started < MaxOps
    /\ started' = started + 1
    /\ short => OutputSize(outputID) > 0
    /\ LET t == [Idle EXCEPT !.op = "Put", !.actionID = actionID, !.outputID = outputID,
                             !.size = OutputSize(outputID)]
           stream == IF short THEN SubSeq(OutputBody(outputID), 1, OutputSize(outputID) - 1)
                     ELSE OutputBody(outputID)
       IN  TwinTake(p, TieredPut_Disk(t, disk, remote, c, stream, ioErr),
                    TieredPut_Disk(t, twin.disk, twin.remote, twin.c, stream, ioErr))

TwinPutActionAnswer(p, fault) ==
    /\ task[p].pc = "put_action"
    /\ TwinTake(p, TieredPut_Action(task[p], disk, remote, c, fault),
                TieredPut_Action(twin.task[p], twin.disk, twin.remote, twin.c, fault))
    /\ UNCHANGED started

TwinPutOutputAnswer(p, fault, elapsed) ==
    /\ task[p].pc = "put_output"
    /\ TwinTake(p, uploadOutput(task[p], disk, remote, c, fault, elapsed),
                uploadOutput(twin.task[p], twin.disk, twin.remote, twin.c, fault, elapsed))
    /\ UNCHANGED started

NextVerbose ==
    \/ \E a \in ActionIDs, fault \in {NoErr} \cup ClientErrors : TwinGet(a, fault)
    \/ \E o \in OutputIDs, size \in Sizes, body \in Bodies, readErr \in BOOLEAN, fault \in PutFaults :
          /\ readErr => size # 0 /\ fault = NoErr
          /\ fault # NoErr => Len(body) = size \/ size = 0
          /\ TwinPut("a1", o, size, body, readErr, fault)
    \/ \E p \in Procs, a \in ActionIDs, ioErr \in BOOLEAN : TwinGetStart(p, a, ioErr)
    \/ \E p \in Procs, fault \in GetFaults, ioErr \in BOOLEAN : TwinGetActionAnswer(p, fault, ioErr)
    \/ \E p \in Procs, fault \in GetFaults, ioErr \in BOOLEAN, elapsed \in Elapsed :
          TwinGetOutputAnswer(p, fault, ioErr, elapsed)
    \/ \E p \in Procs, a \in ActionIDs, o \in OutputIDs, short \in BOOLEAN, ioErr \in BOOLEAN :
          TwinPutStart(p, a, o, short, ioErr)
    \/ \E p \in Procs, fault \in PutFaults : TwinPutActionAnswer(p, fault)
    \/ \E p \in Procs, fault \in PutFaults, elapsed \in Elapsed : TwinPutOutputAnswer(p, fault, elapsed)

SpecVerbose == InitVerbose /\ [][NextVerbose]_vars

\* C21: two runs of a cache that differ only in verbose, given the same calls
\* with the same bodies and the same answers of the bucket and of the disk,
\* return the same results, send the same requests and leave the same bucket
\* and the same disk tier; the byte counters agree too.
C21_VerboseOnlyLogsAndMeasures ==
    /\ twin.of = "adapter" =>
          /\ twin.s3.verbose # s3.verbose
          /\ twin.res = res /\ twin.reqs = reqs /\ twin.objects = objects
    /\ twin.of = "tiered" =>
          /\ twin.c.verbose # c.verbose
          /\ twin.task = task /\ twin.disk = disk /\ twin.remote = remote
          /\ twin.c.bytesDownloaded = c.bytesDownloaded /\ twin.c.bytesUploaded = c.bytesUploaded

\* a download whose write into the disk tier failed returned the error in
\* both runs, after a download that only the verbose run measured
C21_Witness ==
    /\ twin.of = "tiered"
    /\ c.verbose /\ ~twin.c.verbose
    /\ c.downloadCount = 1 /\ twin.c.downloadCount = 0
    /\ \E p \in Procs :
          /\ task[p].pc = "done" /\ task[p].op = "Get" /\ task[p].answered = 2
          /\ task[p].diskPut.called /\ task[p].diskPut.err # "nil"
          /\ task[p].ret.err = task[p].diskPut.err
          /\ twin.task[p].ret = task[p].ret

\* ------------------------------------------------ start-up: the operations

\* the environments a process is started in
StartEnvs ==
    {[NoEnv EXCEPT !["GOCACHE_AWS_REGION"] = region, !["GOCACHE_AWS_ACCESS_KEY"] = key,
                   !["GOCACHE_AWS_SECRET_ACCESS_KEY"] = secret, !["GOCACHE_AWS_CREDS_PROFILE"] = profile,
                   !["GOCACHE_S3_BUCKET"] = bucket, !["GOCACHE_QUEUE_LEN"] = queueLen] :
        region \in {Unset, SetTo("eu")}, key \in {Unset, SetTo("AKIA")}, secret \in {Unset, SetTo("shh")},
        profile \in {Unset, SetTo("ci")}, bucket \in {Unset, SetTo(""), SetTo("b")},
        queueLen \in {Unset, SetTo("8"), SetTo("many")}}

InitStart ==
    /\ AdapterAtRest
    /\ TieredAtRest
    /\ env \in StartEnvs
    /\ main = NotStarted
    /\ pipe = NoPipeline
    /\ dio = NoDiskIO
    /\ stat = NoStats
    /\ twin = NoTwin

StartGoCacher(serverBase, verbose, loadFails) ==
    /\ main.pc = "start"
    /\ main' = GoCacherMain(env, serverBase, verbose, loadFails)
    /\ UNCHANGED <<adapterVars, tieredVars, env, pipe, dio, stat, twin>>

StartS3Cacher(args, loadFails) ==
    /\ main.pc = "start"
    /\ main' = S3CacherMain(env, args, loadFails)
    /\ UNCHANGED <<adapterVars, tieredVars, env, pipe, dio, stat, twin>>

NextStart ==
    \/ \E serverBase \in {"", "http://cache"}, verbose \in BOOLEAN, loadFails \in BOOLEAN :
          StartGoCacher(serverBase, verbose, loadFails)
    \/ \E args \in {<<>>, <<"b">>}, loadFails \in BOOLEAN : StartS3Cacher(args, loadFails)

SpecStart == InitStart /\ [][NextStart]_vars

\* ------------------------------------------------- pipeline: the operations

\* largest queue length, worker count and number of put requests
MaxQueueLen == 2

MaxWorkers == 2

MaxPuts == 3

\* scenario 5: queueLen = 8, workers = 2, 16 puts back-to-back, then close
Scenario5 == NewPipeline(8, 2, 16)

Pipelines ==
    {NewPipeline(queueLen, workers, puts) :
        queueLen \in 0..MaxQueueLen, workers \in 1..MaxWorkers, puts \in 1..MaxPuts}
        \cup {Scenario5}

InitPipe ==
    /\ AdapterAtRest
    /\ TieredAtRest
    /\ env = NoEnv
    /\ main = NotStarted
    /\ pipe \in Pipelines
    /\ dio = NoDiskIO
    /\ stat = NoStats
    /\ twin = NoTwin

PipeStep(q) == pipe' = q /\ UNCHANGED <<adapterVars, tieredVars, env, main, dio, stat, twin>>

\* the disk tier fails only in the small pipelines
PutRequest(localFails) ==
    /\ pipe.engine = "running" /\ pipe.puts > 0
    /\ localFails => pipe.queueLen <= MaxQueueLen
    /\ PipeStep(PipePut(pipe, localFails))

Enqueue == pipe.waiting > 0 /\ CanEnqueue(pipe) /\ PipeStep(PipeEnqueue(pipe))

SyncStart == pipe.waiting > 0 /\ pipe.queueLen = 0 /\ PipeStep(PipeSyncStart(pipe))

SyncDone(job) == job \in pipe.sync /\ PipeStep(PipeSyncDone(pipe, job))

Take1(w) == pipe.worker[w].pc = "idle" /\ pipe.queue # <<>> /\ PipeStep(WorkerTake(pipe, w))

Done1(w) == pipe.worker[w].pc = "busy" /\ PipeStep(WorkerDone(pipe, w))

Exit1(w) == WorkerCanExit(pipe, w) /\ PipeStep(WorkerExit(pipe, w))

CloseRequest == pipe.engine = "running" /\ PipeStep(EngineDrain(pipe))

CloseCache == CanClose(pipe) /\ PipeStep(PipeClose(pipe))

ShutdownReturn == ShutdownCanReturn(pipe) /\ PipeStep(ShutdownReturns(pipe))

ProcessExit == MainCanExit(pipe) /\ PipeStep(MainExit(pipe))

NextPipe ==
    \/ \E localFails \in BOOLEAN : PutRequest(localFails)
    \/ Enqueue
    \/ SyncStart
    \/ \E job \in pipe.sync : SyncDone(job)
    \/ \E w \in 1..pipe.workers : Take1(w)
    \/ \E w \in 1..pipe.workers : Done1(w)
    \/ \E w \in 1..pipe.workers : Exit1(w)
    \/ CloseRequest
    \/ CloseCache
    \/ ShutdownReturn
    \/ ProcessExit

SpecPipe == InitPipe /\ [][NextPipe]_vars

\* goroutines that can run do run, and every remote put returns
PipeFairness ==
    /\ WF_vars(Enqueue)
    /\ WF_vars(SyncStart)
    /\ WF_vars(\E job \in pipe.sync : SyncDone(job))
    /\ \A w \in 1..MaxWorkers : WF_vars(w <= pipe.workers /\ Take1(w))
    /\ \A w \in 1..MaxWorkers : WF_vars(w <= pipe.workers /\ Done1(w))

SpecPipeLive == InitPipe /\ [][NextPipe]_vars /\ PipeFairness

\* -------------------------------------------- pipeline: checked properties

Jobs(q) == 1..q.issued

Held(q) == {q.worker[w].job : w \in {v \in 1..q.workers : q.worker[v].pc = "busy"}}

Queued(q) == {q.queue[i] : i \in 1..Len(q.queue)}

C15_Backpressure ==
    /\ [](/\ Len(pipe.queue) <= pipe.queueLen
          /\ Jobs(pipe) = pipe.done \cup Queued(pipe) \cup Held(pipe) \cup pipe.sync
          /\ pipe.remotePuts = Cardinality(pipe.done))
    /\ [][(pipe'.issued > pipe.issued /\ pipe.queueLen > 0) => Len(pipe.queue) < pipe.queueLen]_vars
    /\ <>[](pipe.waiting = 0 /\ pipe.done = Jobs(pipe))

\* a Put task waiting at a full channel while both workers are busy
C15_Witness ==
    /\ pipe.queueLen > 0 /\ Len(pipe.queue) = pipe.queueLen
    /\ pipe.waiting > 0
    /\ \A w \in 1..pipe.workers : pipe.worker[w].pc = "busy"

\* ------------------------------------------------ disk tier: the operations

\* most Puts of the disk tier a behaviour starts, and most crashes
MaxDiskPuts == 3

MaxCrashes == 1

InitDisk ==
    /\ AdapterAtRest
    /\ TieredAtRest
    /\ GlueAtRest

DiskStep(d, io) ==
    /\ disk' = d
    /\ dio' = io
    /\ UNCHANGED <<adapterVars, c, remote, task, started, putDone, fetched, env, main, pipe, stat, twin>>

\* the stream of a Put may end before the declared size
DiskPutStart(p, actionID, outputID, short) ==
    /\ dio.put[p].pc \in {"idle", "done"}
    /\ dio.started < MaxDiskPuts
    /\ short => OutputSize(outputID) > 0
    /\ DiskStep(disk,
                [dio EXCEPT !.started = @ + 1,
                            !.put[p] = [pc |-> DiskPutOrder[1], actionID |-> actionID, outputID |-> outputID,
                                        size |-> OutputSize(outputID),
                                        stream |-> IF short THEN SubSeq(OutputBody(outputID), 1, OutputSize(outputID) - 1)
                                                            ELSE OutputBody(outputID),
                                        err |-> "nil"]])

DiskPutAdvance(p, ioErr) ==
    /\ dio.put[p].pc \in {"body", "action"}
    /\ \E n \in {DiskPutStep(disk, dio.put[p], ioErr)} : DiskStep(n.disk, [dio EXCEPT !.put[p] = n.put])

\* the process dies and is started again on the same directory
Crash ==
    /\ dio.crashes < MaxCrashes
    /\ DiskStep(disk, [dio EXCEPT !.crashes = @ + 1, !.put = [p \in Procs |-> NoDiskPut]])

NextDisk ==
    \/ \E p \in Procs, a \in ActionIDs, o \in OutputIDs, short \in BOOLEAN : DiskPutStart(p, a, o, short)
    \/ \E p \in Procs, ioErr \in BOOLEAN : DiskPutAdvance(p, ioErr)
    \/ Crash

SpecDisk == InitDisk /\ [][NextDisk]_vars

\* --------------------------------------------- disk tier: checked properties

\* body files no action record names
OrphanBodies == {o \in OutputIDs : disk.bodies[o].present /\ \A a \in ActionIDs : disk.actions[a].OutputID # o}

\* C16: in every state of the directory, also after a crash inside a Put, every
\* action record present names a body file that is present.
C16_NoDanglingActionRecord ==
    \A a \in ActionIDs :
        disk.actions[a].present => disk.bodies[disk.actions[a].OutputID].present

\* after a crash between the two renames of a second Put: an orphan body next
\* to a complete entry
C16_Witness ==
    /\ dio.crashes = 1
    /\ OrphanBodies # {}
    /\ \E a \in ActionIDs : disk.actions[a].present

\* ------------------------------------------- statistics: the operations

\* most measured transfers a behaviour starts
MaxTransfers == 3

\* the sizes of the transfers measured (a transfer of size 0 is never measured)
TransferSizes == {1, 3}

InitStats ==
    /\ AdapterAtRest
    /\ c \in {NewDiskS3Cache(verbose) : verbose \in BOOLEAN}
    /\ disk = EmptyDisk
    /\ remote = EmptyRemote
    /\ task = [p \in Procs |-> Idle]
    /\ started = 0
    /\ putDone = {}
    /\ fetched = {}
    /\ GlueAtRest

StatStep(cache, s) ==
    /\ c' = cache
    /\ stat' = s
    /\ UNCHANGED <<adapterVars, disk, remote, task, started, putDone, fetched, env, main, pipe, dio, twin>>

\* speed, err := DoAndMeasureSpeed(size, f) in a verbose cache; the statistics
\* are touched only if err == nil
StatMeasure(p, dir, size, elapsed, fails) ==
    /\ stat.t[p].pc \in {"idle", "done"}
    /\ stat.started < MaxTransfers
    /\ c.verbose
    /\ StatStep(c,
                IF fails
                THEN [stat EXCEPT !.started = @ + 1, !.t[p] = [pc |-> "done", dir |-> dir, speed |-> Zero]]
                ELSE [stat EXCEPT !.started = @ + 1,
                                  !.t[p] = [pc |-> "lock", dir |-> dir, speed |-> MeasuredSpeed(size, elapsed)],
                                  !.measured[dir] = Append(@, MeasuredSpeed(size, elapsed))])

\* err = f() in a cache that is not verbose: nothing is measured
StatSkip(p, dir) ==
    /\ stat.t[p].pc \in {"idle", "done"}
    /\ stat.started < MaxTransfers
    /\ ~c.verbose
    /\ StatStep(c, [stat EXCEPT !.started = @ + 1, !.t[p] = [pc |-> "done", dir |-> dir, speed |-> Zero]])

StatLock(p) ==
    /\ stat.t[p].pc = "lock"
    /\ CanLock(stat.mu[stat.t[p].dir])
    /\ StatStep(c, [stat EXCEPT !.mu[stat.t[p].dir] = p, !.t[p].pc = "average"])

StatAverage(p) ==
    /\ stat.t[p].pc = "average"
    /\ StatStep(SetAverage(c, stat.t[p].dir, stat.t[p].speed),
                [stat EXCEPT !.t[p].pc = "count", !.applied[stat.t[p].dir] = Append(@, stat.t[p].speed)])

StatCount(p) ==
    /\ stat.t[p].pc = "count"
    /\ StatStep(IncrementCount(c, stat.t[p].dir), [stat EXCEPT !.t[p].pc = "unlock"])

StatUnlock(p) ==
    /\ stat.t[p].pc = "unlock"
    /\ StatStep(c, [stat EXCEPT !.mu[stat.t[p].dir] = "", !.t[p].pc = "done"])

NextStats ==
    \/ \E p \in Procs, dir \in Directions, size \in TransferSizes, elapsed \in Elapsed, fails \in BOOLEAN :
          StatMeasure(p, dir, size, elapsed, fails)
    \/ \E p \in Procs, dir \in Directions : StatSkip(p, dir)
    \/ \E p \in Procs : StatLock(p)
    \/ \E p \in Procs : StatAverage(p)
    \/ \E p \in Procs : StatCount(p)
    \/ \E p \in Procs : StatUnlock(p)

SpecStats == InitStats /\ [][NextStats]_vars

\* ------------------------------------------ statistics: checked properties

RECURSIVE SumOf(_)
SumOf(samples) ==
    IF samples = <<>> THEN Zero
    ELSE LET rest == SumOf(Tail(samples))
             s == Head(samples)
         IN  Rat(s.num * rest.den + rest.num * s.den, s.den * rest.den)

\* (s_1 + ... + s_N) / N
MeanOf(samples) == Rat(SumOf(samples).num, SumOf(samples).den * Len(samples))

\* the tasks between Lock and Unlock of a direction's mutex, and those yet to lock it
Updating(dir, pcs) == {p \in Procs : stat.t[p].dir = dir /\ stat.t[p].pc \in pcs}

\* C18: from mean 0 and count 0, after newAverage has been applied to the
\* samples s_1..s_N, N >= 1, the mean is (s_1 + ... + s_N) / N; and once the
\* count has been incremented for the last of them, the count is N.
C18_StreamingMean ==
    \A dir \in Directions :
        LET samples == stat.applied[dir] IN
        /\ samples = <<>> => Average(c, dir) = Zero /\ Count(c, dir) = 0
        /\ samples # <<>> => Average(c, dir) = MeanOf(samples)
        /\ Count(c, dir) = Len(samples) - Cardinality(Updating(dir, {"count"}))

\* three samples, not all equal, in one mean
C18_Witness ==
    /\ Len(stat.applied["down"]) = 3
    /\ stat.applied["down"][1] # stat.applied["down"][2]
    /\ stat.mu["down"] = ""
    /\ c.downloadCount = 3 /\ c.avgBytesDownloadSpeed = MeanOf(stat.applied["down"])

\* C19: at most one task is between Lock and Unlock of a direction's mutex;
\* and when no measured transfer of a direction is still to be recorded, its
\* count is the number K of transfers measured with err == nil and its mean is
\* the mean of their K speeds.
C19_StatsUnderMutex ==
    \A dir \in Directions :
        /\ Cardinality(Updating(dir, {"average", "count", "unlock"})) <= 1
        /\ Updating(dir, {"lock", "average", "count", "unlock"}) = {} =>
              /\ Count(c, dir) = Len(stat.measured[dir])
              /\ stat.measured[dir] # <<>> => Average(c, dir) = MeanOf(stat.measured[dir])

\* two downloads finished at the same time, recorded one after the other
C19_Witness ==
    /\ stat.t["p1"].pc = "done" /\ stat.t["p2"].pc = "done"
    /\ stat.t["p1"].dir = "down" /\ stat.t["p2"].dir = "down"
    /\ Len(stat.measured["down"]) = 3
    /\ stat.measured["down"] # stat.applied["down"]
    /\ c.downloadCount = 3

\* the speed means and their sample counts
SpeedStats(cache) ==
    <<cache.avgBytesDownloadSpeed, cache.downloadCount, cache.avgBytesUploadSpeed, cache.uploadCount>>

\* C20: a step of a Get or a Put whose transfer is of zero bytes (a Get that
\* materializes a size-0 entry, a Put of a size-0 body) leaves the download
\* and upload means and their sample counts unchanged.
C20_ZeroBytesNoSample ==
    [][\A p \in Procs :
          task'[p] # task[p] /\ task'[p].op \in {"Get", "Put"} /\ task'[p].size = 0 =>
              SpeedStats(c') = SpeedStats(c)]_vars

\* a verbose cache has materialized a size-0 entry from the bucket and stored
\* a size-0 body in it, both with success, and holds no sample
C20_Witness ==
    /\ c.verbose
    /\ \E p, q \in Procs :
          /\ task[p].pc = "done" /\ task[p].op = "Get" /\ task[p].answered = 1
          /\ task[p].diskPut.called /\ task[p].size = 0
          /\ task[p].ret = TieredResult("o2", DiskPath("o2"), "nil")
          /\ task[q].pc = "done" /\ task[q].op = "Put" /\ task[q].size = 0
          /\ task[q].answered = 1 /\ task[q].actionErr = NoErr /\ task[q].ret.err = "nil"
    /\ SpeedStats(c) = SpeedStats(NewDiskS3Cache(TRUE))

\* ------------------------------------------- start-up: checked properties

\* C12 as stated: with GOCACHE_S3_BUCKET and GOCACHE_AWS_REGION set and the
\* credentials given as access key and secret key or as a profile, getCache
\* returns a combined cache whose remote tier is the S3 cache.
C12_ConnectsToS3 ==
    (/\ main.prog = "go-cacher" /\ ~main.loadFails
     /\ Getenv(env, "GOCACHE_S3_BUCKET") # "" /\ Getenv(env, "GOCACHE_AWS_REGION") # ""
     /\ \/ Getenv(env, "GOCACHE_AWS_ACCESS_KEY") # "" /\ Getenv(env, "GOCACHE_AWS_SECRET_ACCESS_KEY") # ""
        \/ Getenv(env, "GOCACHE_AWS_CREDS_PROFILE") # "")
        => /\ main.pc = "loop"
           /\ main.cache.kind = "combined"
           /\ main.cache.remote.kind = "s3"
           /\ main.cache.remote.bucket = Getenv(env, "GOCACHE_S3_BUCKET")

\* C13 as stated: a process started with no bucket, neither as the positional
\* argument nor in the environment, ends in log.Fatal and never reaches the
\* protocol loop; no process is at the protocol loop without a bucket.
C13_NoBucketIsFatal ==
    /\ (main.prog # "none" /\ main.args = <<>> /\ ~env["GOCACHE_S3_BUCKET"].set) => main.pc = "fatal"
    /\ main.pc = "loop" => main.cache.remote.kind = "s3" /\ main.cache.remote.bucket # ""

\* the part of C13 that holds: the disk + S3 cacher without a bucket is fatal
C13_S3CacherNoBucketIsFatal ==
    (main.prog = "s3-cacher" /\ main.args = <<>> /\ ~env["GOCACHE_S3_BUCKET"].set) => main.pc = "fatal"

\* ------------------------------- disk-backed S3 cache: checked properties

DoneGets == {p \in Procs : task[p].op = "Get" /\ task[p].pc = "done"}

DonePuts == {p \in Procs : task[p].op = "Put" /\ task[p].pc = "done"}

DiskHit(t) == t.diskGet.called /\ t.diskGet.err = "nil" /\ t.diskGet.outputID # ""

DiskMiss(t) == t.diskGet.called /\ t.diskGet.err = "nil" /\ t.diskGet.outputID = ""

ReturnsMiss(t) == t.ret.outputID = "" /\ t.ret.diskPath = NoPath /\ t.ret.err = "nil"

\* the bucket answered the action key with the JSON of an ActionValue and, for a
\* size above 0, the output key with an object
RemoteHit(t) ==
    /\ t.answered >= 1 /\ t.actionErr = NoErr /\ UnmarshalOK(t.doc)
    /\ Unmarshal(t.doc).Size > 0 => t.answered = 2 /\ t.outputErr = NoErr

\* the bucket holds no object under the action key, or none under the output key
RemoteMiss(t) ==
    \/ t.answered = 1 /\ t.actionErr = NoSuchKey
    \/ t.answered = 2 /\ t.actionErr = NoErr /\ t.outputErr = NoSuchKey

\* C1: the tiered Get is read-through. A disk hit is returned as it is, with no
\* request to the bucket. On a disk miss and a remote hit the body goes through
\* the disk tier's Put and Get returns the OutputID with the path and error of
\* that Put; once that Put succeeded the disk tier holds the entry, and a later
\* Get of the ActionID that the disk tier answers sends no request. When both
\* tiers miss, Get returns Miss.
C1_ReadThrough ==
    \A p \in DoneGets :
        LET t == task[p] IN
        /\ DiskHit(t) =>
              t.sent = 0 /\ t.ret = TieredResult(t.diskGet.outputID, t.diskGet.diskPath, "nil")
        /\ (DiskMiss(t) /\ RemoteHit(t)) =>
              /\ t.diskPut.called
              /\ t.ret = TieredResult(Unmarshal(t.doc).OutputID, t.diskPut.diskPath, t.diskPut.err)
              /\ t.diskPut.err = "nil" =>
                    /\ t.ret.diskPath = DiskPath(t.ret.outputID)
                    /\ DiskGet(disk, t.actionID, FALSE).outputID # ""
        /\ (t.afterFetch /\ t.diskGet.err = "nil") => DiskHit(t) /\ t.sent = 0
        /\ (DiskMiss(t) /\ RemoteMiss(t)) => ReturnsMiss(t)

\* a Get fetched a1 from the bucket, and a second Get of a1 was served from disk
C1_Witness ==
    \E p \in DoneGets, q \in DoneGets :
        /\ DiskMiss(task[p]) /\ RemoteHit(task[p]) /\ task[p].ret.err = "nil"
        /\ task[p].ret.diskPath = DiskPath("o1")
        /\ task[q].actionID = task[p].actionID
        /\ task[q].afterFetch /\ DiskHit(task[q]) /\ task[q].sent = 0
        /\ task[q].ret = task[p].ret

C3_PutHidesRemoteFailure ==
    \A p \in DonePuts :
        (task[p].diskPut.called /\ task[p].diskPut.err = "nil") =>
            task[p].ret = TieredResult("", DiskPath(task[p].outputID), "nil")

\* a Put whose output upload failed
C3_Witness ==
    \E p \in DonePuts :
        /\ task[p].answered = 2 /\ task[p].outputErr # NoErr
        /\ task[p].ret = TieredResult("", DiskPath("o1"), "nil")

RemoteFailure(err) == err # NoErr /\ ~(err.api /\ err.code \in {"NoSuchKey", "AccessDenied"})

\* C4 as stated: a failure of the bucket other than not-found, on the action
\* lookup or on the output download, never reaches the caller of Get as an
\* error: Get returns Miss.
C4_RemoteErrorIsMiss ==
    \A p \in DoneGets :
        (RemoteFailure(task[p].actionErr) \/ RemoteFailure(task[p].outputErr)) => ReturnsMiss(task[p])

\* C5 as stated: an error of the disk tier reaches the caller: of Get when the
\* disk tier's Get fails (with no request sent to the bucket) or when the Put
\* that stores a fetched body fails, of Put when the disk tier's Put fails.
C5_LocalErrorsPropagate ==
    /\ \A p \in DoneGets :
          /\ task[p].diskGet.err # "nil" => task[p].ret.err # "nil" /\ task[p].sent = 0
          /\ task[p].diskPut.err # "nil" => task[p].ret.err # "nil"
    /\ \A p \in DonePuts : task[p].diskPut.err # "nil" => task[p].ret.err # "nil"

\* the two parts of C5 about the disk tier's Put
C5_DiskPutErrorsPropagate ==
    \A p \in DoneGets \cup DonePuts : task[p].diskPut.err # "nil" => task[p].ret.err = task[p].diskPut.err

\* C6 as stated: Put returns after the local write without waiting for the
\* bucket: it is never waiting for an answer, and when it returns none of its
\* requests has had to be answered.
C6_PutNeverWaitsForRemote ==
    \A p \in Procs :
        task[p].op = "Put" =>
            /\ task[p].pc \notin {"put_action", "put_output"}
            /\ task[p].pc = "done" => task[p].answered = 0

\* the action records of the bucket that name an output of size > 0 the bucket does not hold
DanglingRecords(r) ==
    {a \in ActionIDs :
        /\ r.actions[a].present /\ UnmarshalOK(r.actions[a].body)
        /\ Unmarshal(r.actions[a].body).Size > 0
        /\ ~r.outputs[Unmarshal(r.actions[a].body).OutputID].present}

\* C23: a Put of the disk-backed cache sends the output body only after the
\* answer to the action record's upload, and exactly when size > 0 and that
\* upload succeeded; and a Get that reads an action record and is answered
\* not-found for the output object returns Miss with a nil error and leaves
\* the disk tier untouched.
C23_RecordBeforeBody ==
    /\ [](\A p \in Procs :
            task[p].op = "Put" =>
                /\ task[p].sent = 2 => task[p].answered >= 1
                /\ task[p].answered >= 1 =>
                      (task[p].sent = 2 <=> (task[p].size > 0 /\ task[p].actionErr = NoErr)))
    /\ [][\A p \in Procs :
              (/\ task'[p] # task[p] /\ task'[p].op = "Get" /\ task'[p].answered = 2
               /\ task'[p].actionErr = NoErr /\ TieredIsNotFoundError(task'[p].outputErr)) =>
                  /\ task'[p].pc = "done" /\ ReturnsMiss(task'[p])
                  /\ ~task'[p].diskPut.called
                  /\ disk' = disk]_vars

\* a Put whose body upload failed left a record without its output in the
\* bucket, and a Get that the disk tier did not answer found it: a Miss
C23_Witness ==
    \E p, q \in Procs :
        /\ task[p].op = "Put" /\ task[p].pc = "done" /\ task[p].sent = 2
        /\ task[p].outputErr # NoErr
        /\ task[p].actionID \in DanglingRecords(remote)
        /\ task[q].op = "Get" /\ task[q].pc = "done" /\ task[q].actionID = task[p].actionID
        /\ task[q].answered = 2 /\ task[q].outputErr = NoSuchKey
        /\ ReturnsMiss(task[q]) /\ ~task[q].diskPut.called

\* the bytes a Put that has returned wrote to the disk tier
PutBytes(t) ==
    IF t.op = "Put" /\ t.pc = "done" /\ t.diskPut.called /\ t.diskPut.err = "nil" THEN t.size ELSE 0

\* the bytes of the output object a Get that has returned fetched from the
\* bucket and wrote to the disk tier
FetchedBytes(t) ==
    IF /\ t.op = "Get" /\ t.pc = "done" /\ t.answered = 2 /\ t.outputErr = NoErr
       /\ t.diskPut.called /\ t.diskPut.err = "nil"
    THEN t.size ELSE 0

\* C24: both counters start at 0. The step in which a task returns adds to
\* bytesUploaded the declared size of a Put that wrote to the disk tier,
\* whatever became of its uploads, and to bytesDownloaded the size of an output
\* object of size > 0 fetched and written to the disk tier; no other step
\* changes a counter. So, while no task has made a second call, the counters
\* are the sums over the calls that returned, and they never decrease.
C24_ByteCounters ==
    /\ [](started = 0 => c.bytesUploaded = 0 /\ c.bytesDownloaded = 0)
    /\ [](started = Cardinality({p \in Procs : task[p].op # "none"}) =>
            /\ c.bytesUploaded = PutBytes(task["p1"]) + PutBytes(task["p2"])
            /\ c.bytesDownloaded = FetchedBytes(task["p1"]) + FetchedBytes(task["p2"]))
    /\ [][\A p \in Procs :
              task'[p] # task[p] =>
                  /\ c'.bytesUploaded = c.bytesUploaded + PutBytes(task'[p])
                  /\ c'.bytesDownloaded = c.bytesDownloaded + FetchedBytes(task'[p])]_vars
    /\ [][c'.bytesUploaded >= c.bytesUploaded /\ c'.bytesDownloaded >= c.bytesDownloaded]_vars

\* one byte fetched from the bucket, and one byte put whose upload the bucket refused
C24_Witness ==
    /\ c.bytesDownloaded = 1 /\ c.bytesUploaded = 1
    /\ \E p, q \in Procs :
          /\ FetchedBytes(task[p]) = 1
          /\ PutBytes(task[q]) = 1 /\ task[q].sent = 2 /\ task[q].outputErr # NoErr

\* ---------------------------------------------- adapter: checked properties

IsMiss(r) == r.outputID = "" /\ ~r.hasOutput /\ r.err = "nil"

IsError(r) == r.err # "nil"

CalledObject == objects[actionKey(s3, call.actionID)]

\* C7: the remote adapter's Get answers Miss to a NoSuchKey error and to an
\* AccessDenied error whose message does not mention SignatureDoesNotMatch; to
\* an AccessDenied error that mentions it, and to every other error of the
\* store, it answers Error, never Miss.
C7_GetClassifiesStoreErrors ==
    (call.op = "Get" /\ call.fault # NoErr) =>
        LET e == call.fault
            absent == e.api /\ (e.code = "NoSuchKey"
                                \/ (e.code = "AccessDenied" /\ ~Contains(e.msg, "SignatureDoesNotMatch")))
        IN  IF absent THEN IsMiss(res) ELSE IsError(res) /\ ~IsMiss(res)

C7_Witness ==
    /\ call.op = "Get"
    /\ call.fault = APIError("AccessDenied", <<"request", "SignatureDoesNotMatch">>)
    /\ IsError(res)

\* C8: Get on an object that exists but has no outputid metadata, or an empty
\* one, returns Error: neither a hit nor Miss.
C8_MissingOutputIDIsError ==
    (/\ call.op = "Get" /\ call.fault = NoErr /\ CalledObject.present
     /\ \A kv \in CalledObject.metadata : kv[1] = outputIDMetadataKey => kv[2] = "")
        => IsError(res) /\ ~res.hasOutput /\ res.outputID = ""

C8_Witness ==
    /\ call.op = "Get" /\ call.fault = NoErr
    /\ CalledObject = Object(<<7>>, {})
    /\ res.err = "outputId not found in metadata"

\* C9: after a successful Put(A,O,S,body) with a body of exactly S bytes and
\* S > 0 or SkipZeroBytePuts false, a Get(A) the store answers returns
\* OutputID O, size S and a stream with the bytes of body.
C9_RemoteRoundTrip ==
    (call.op = "Get" /\ call.fault = NoErr /\ stored[call.actionID].set) =>
        LET put == stored[call.actionID]
        IN  /\ res.err = "nil" /\ res.hasOutput
            /\ res.outputID = put.outputID
            /\ res.size = put.size
            /\ res.output = put.body

C9_Witness ==
    /\ call.op = "Get" /\ call.fault = NoErr
    /\ stored[call.actionID] = [set |-> TRUE, outputID |-> "o2", size |-> 1, body |-> <<9>>]
    /\ res.output = <<9>>

\* C10: with SkipZeroBytePuts set, a Put of size 0 sends no request, leaves the
\* bucket as it was and returns success; and a Get of an ActionID under whose
\* key the bucket holds no object is a Miss.
C10_SkipZeroBytePuts ==
    /\ [][(call'.op = "Put" /\ call'.size = 0 /\ s3.SkipZeroBytePuts) =>
              (reqs' = <<>> /\ objects' = objects /\ res'.err = "nil")]_vars
    /\ []((call.op = "Get" /\ call.fault = NoErr /\ ~CalledObject.present) => IsMiss(res))

C10_Witness ==
    /\ call.op = "Put" /\ call.size = 0 /\ s3.SkipZeroBytePuts
    /\ reqs = <<>> /\ res.err = "nil"
    /\ ~CalledObject.present

\* C17: a Put of the remote adapter sends at most one PutObject, with
\* RetryMaxAttempts 0 and also when the upload fails; it sends none when reading
\* the body fails or yields another number of bytes than declared; the body of
\* the request is the whole body, of exactly the declared size (empty for size 0).
C17_OneCompleteUpload ==
    call.op = "Put" =>
        /\ Len(reqs) <= 1
        /\ (call.size # 0 /\ (call.readErr \/ Len(call.body) # call.size)) => reqs = <<>>
        /\ reqs # <<>> =>
              /\ reqs[1].op = "PutObject" /\ reqs[1].RetryMaxAttempts = 0
              /\ reqs[1].body = (IF call.size = 0 THEN <<>> ELSE call.body)
              /\ Len(reqs[1].body) = call.size /\ reqs[1].ContentLength = call.size
              /\ call.fault # NoErr => IsError(res)

\* an upload the store refused: one request, the error returned
C17_Witness ==
    /\ call.op = "Put" /\ call.size = 1 /\ call.body = <<9>> /\ call.fault = NetErr
    /\ Len(reqs) = 1 /\ reqs[1].body = <<9>>
    /\ res.err = "PutObject failed"

\* C22: a Put of the remote adapter with a declared size S > 0 whose body
\* cannot be read, or has another number of bytes than S, returns an error,
\* sends no request and leaves the bucket as it was; a Put with S = 0 and
\* SkipZeroBytePuts false that the store accepts stores an empty object under
\* the action key, whatever body was supplied.
C22_PutChecksTheBody ==
    /\ [][(call'.op = "Put" /\ call'.size > 0 /\ (call'.readErr \/ Len(call'.body) # call'.size)) =>
              (IsError(res') /\ reqs' = <<>> /\ objects' = objects)]_vars
    /\ [][(call'.op = "Put" /\ call'.size = 0 /\ ~s3.SkipZeroBytePuts /\ call'.fault = NoErr) =>
              /\ res'.err = "nil"
              /\ Len(reqs') = 1 /\ reqs'[1].body = <<>>
              /\ objects'[actionKey(s3, call'.actionID)] =
                    Object(<<>>, {<<outputIDMetadataKey, call'.outputID>>})]_vars

\* the empty object a Put of size 0 stored, its body ignored, is still there
\* after a Put of the same ActionID whose body is shorter than declared
C22_Witness ==
    /\ ~s3.SkipZeroBytePuts
    /\ call.op = "Put" /\ call.actionID = "a1" /\ call.size = 1 /\ call.body = <<>> /\ ~call.readErr
    /\ res.err = "size mismatch" /\ reqs = <<>>
    /\ objects[actionKey(s3, "a1")] = Object(<<>>, {<<outputIDMetadataKey, "o1">>})

\* the architecture and operating system the build targets
TargetGOARCH == IF env["GOARCH"].set /\ env["GOARCH"].val # "" THEN env["GOARCH"].val ELSE runtimeGOARCH

TargetGOOS == IF env["GOOS"].set /\ env["GOOS"].val # "" THEN env["GOOS"].val ELSE runtimeGOOS

====
